---- MODULE Spec2Model ----
(***************************************************************************)
(* Model of cyberscavengers.py, the NASA APOD viewer.  One run of the      *)
(* script (a Streamlit rerun) is a sequence of steps: the sidebar widgets  *)
(* with the date resolution and the fetch trigger kept in the session      *)
(* state (Begin), the call of the cached fetch_apod (Lookup), the answer   *)
(* of the API (Receive), the balloons and the flag reset (Celebrate), the  *)
(* header (Header) and the rest of the page after the image download       *)
(* (Finish).  Between the steps the clock advances (Tick), the script may  *)
(* be stopped by a new interaction (Stop) and another session calls        *)
(* fetch_apod and writes the shared store of st.cache_data (OtherLookup,   *)
(* OtherReceive).                                                          *)
(*                                                                         *)
(* Strings that are only compared or concatenated are TLA+ strings; the    *)
(* title and the explanation, which the script lower-cases and searches,   *)
(* are sequences of one-character strings.  Python's None is None_.        *)
(***************************************************************************)
EXTENDS Integers, Sequences, FiniteSets, TLC

VARIABLES
    now,                 \* the clock: seconds since 00:00 of StartDay
    session_state,       \* st.session_state, a dict (function on its keys)
    cache,               \* the st.cache_data store of fetch_apod: arg -> entry
    manual_date,         \* value of the date_input widget in the current run
    event_selection_key, \* value of the selectbox in the current run
    clicked,             \* whether the Fetch button was clicked in the current run
    fetch_date_str,      \* the script's fetch_date_str in the current run
    run_today,           \* date.today() as read by the current run
    lookup,              \* how the fetch_apod call of the current run was served
    api_calls,           \* the params of the requests.get calls of the current run
    response,            \* the API response received in the current run
    data,                \* the dict returned by the fetch_apod call of the run
    raised,              \* the message of the exception fetch_apod raised, or ""
    outcome,             \* what the current run has displayed so far
    pc,                  \* the place of the running script, "idle" if none
    other,               \* the fetch_apod call of another session of the server
    refetched            \* history: the keys this session looked up when the
                         \* stored entry was older than the TTL

vars == << now, pc, session_state, cache, manual_date, event_selection_key, clicked,
           fetch_date_str, run_today, lookup, api_calls, response, data, raised,
           outcome, other, refetched >>

(***************************************************************************)
(* Bounds of the model.                                                    *)
(***************************************************************************)
\* The clock advances at most this many times.
MaxTicks == 2

\* In the specification of the first run the clock advances at most this
\* many times.
MaxFirstRunTicks == 1

(***************************************************************************)
(* Python values.                                                          *)
(***************************************************************************)
None_ == "None"

\* Python truthiness of an Optional[str].
Truthy(s) == s # None_ /\ s # ""

\* dict.get(key, default)
DictGet(d, key, default) == IF key \in DOMAIN d THEN d[key] ELSE default

\* d[key] = value
DictSet(d, key, value) ==
    [k \in DOMAIN d \cup {key} |-> IF k = key THEN value ELSE d[k]]

EmptyDict == [k \in {} |-> None_]

Digits == << "0", "1", "2", "3", "4", "5", "6", "7", "8", "9" >>

DigitStr(n) == Digits[n + 1]

\* str(n) for a natural number n
RECURSIVE IntStr(_)
IntStr(n) == IF n < 10 THEN DigitStr(n) ELSE IntStr(n \div 10) \o DigitStr(n % 10)

Pad2(n) == DigitStr((n \div 10) % 10) \o DigitStr(n % 10)

Pad4(n) == Pad2(n \div 100) \o Pad2(n % 100)

(***************************************************************************)
(* Calendar dates, datetime.date as << year, month, day >>.                *)
(***************************************************************************)
IsLeap(y) == (y % 4 = 0 /\ y % 100 # 0) \/ y % 400 = 0

DaysInMonth(y, m) ==
    IF m = 2 THEN (IF IsLeap(y) THEN 29 ELSE 28)
    ELSE IF m \in {4, 6, 9, 11} THEN 30 ELSE 31

NextDay(d) ==
    IF d[3] < DaysInMonth(d[1], d[2]) THEN << d[1], d[2], d[3] + 1 >>
    ELSE IF d[2] < 12 THEN << d[1], d[2] + 1, 1 >>
    ELSE << d[1] + 1, 1, 1 >>

RECURSIVE AddDays(_, _)
AddDays(d, n) == IF n = 0 THEN d ELSE AddDays(NextDay(d), n - 1)

\* date comparison a <= b
DateLeq(a, b) ==
    \/ a[1] < b[1]
    \/ a[1] = b[1] /\ a[2] < b[2]
    \/ a[1] = b[1] /\ a[2] = b[2] /\ a[3] <= b[3]

\* date.strftime("%Y-%m-%d")
strftime(d) == Pad4(d[1]) \o "-" \o Pad2(d[2]) \o "-" \o Pad2(d[3])

(***************************************************************************)
(* The clock.                                                              *)
(***************************************************************************)
\* The ttl of st.cache_data, in seconds.
TTL == 3600

SecondsPerDay == 24 * 3600

\* The calendar day on which the model's clock starts.
StartDay == << 2025, 5, 23 >>

\* The clock starts three quarters of a TTL before midnight of StartDay.
StartNow == SecondsPerDay - (3 * TTL) \div 4

\* One step of the clock: up to midnight less than the TTL, so that an entry
\* stored before midnight is fresh at midnight; from midnight on more than
\* the TTL, so that an entry stored at one step is expired at the next.
TickSeconds(t) ==
    IF t < SecondsPerDay THEN SecondsPerDay - t ELSE (3 * TTL) \div 2

\* The clock after n steps from t.
RECURSIVE After(_, _)
After(t, n) == IF n = 0 THEN t ELSE After(t + TickSeconds(t), n - 1)

\* The last time of the model.
LastNow == After(StartNow, MaxTicks)

\* date.today()
Today(t) == AddDays(StartDay, t \div SecondsPerDay)

(***************************************************************************)
(* Configuration of the script.                                            *)
(***************************************************************************)
API_KEY == "1Az74dirI1HZ7ZFXyDZRLGrGYCuyAhQmEFneJVn4"

Placeholder == "Select a Solar Event Date"

SOLAR_APOD_DATES ==
    [ k \in { Placeholder,
              "Saturn's Rings Appear to Disappear (2025-04-29)",
              "Comet Pons-Brooks in Northern Spring (2024-03-09)",
              "Luvovna Full moon (2022-07-15)",
              "Earth and the Moon (2021-09-05)",
              "GW Orionis: A Star System with Tilted Rings (2020-09-29)",
              "NGC 3717: A Nearly Sideways Spiral Galaxy (2019-11-12)",
              "NGC 7293: The Helix Nebula (2024-10-24)",
              "Reflections of the Ghost Nebula (2023-10-30)",
              "Hydrogen Clouds of M33 (2023-10-13)",
              "The Changing Ion Tail of Comet Pons-Brooks (2024-04-08)",
              "The Large Magellanic Cloud Galaxy (2024-10-02)",
              "Athena to the Moon (2025-02-28)",
              "Deimos Before Sunrise (2025-05-24)" } |->
        CASE k = Placeholder -> None_
          [] k = "Saturn's Rings Appear to Disappear (2025-04-29)" -> "2025-04-29"
          [] k = "Comet Pons-Brooks in Northern Spring (2024-03-09)" -> "2024-03-09"
          [] k = "Luvovna Full moon (2022-07-15)" -> "2022-07-15"
          [] k = "Earth and the Moon (2021-09-05)" -> "2021-09-05"
          [] k = "GW Orionis: A Star System with Tilted Rings (2020-09-29)" -> "2020-09-29"
          [] k = "NGC 3717: A Nearly Sideways Spiral Galaxy (2019-11-12)" -> "2019-11-12"
          [] k = "NGC 7293: The Helix Nebula (2024-10-24)" -> "2024-10-24"
          [] k = "Reflections of the Ghost Nebula (2023-10-30)" -> "2023-10-30"
          [] k = "Hydrogen Clouds of M33 (2023-10-13)" -> "2023-10-13"
          [] k = "The Changing Ion Tail of Comet Pons-Brooks (2024-04-08)" -> "2024-04-08"
          [] k = "The Large Magellanic Cloud Galaxy (2024-10-02)" -> "2024-10-02"
          [] k = "Athena to the Moon (2025-02-28)" -> "2025-02-28"
          [] k = "Deimos Before Sunrise (2025-05-24)" -> "2025-05-24" ]

EXCLUDE_DATES == { "1998-04-01", "2005-07-04" }

\* min_value of the date_input widget
MinDate == << 1995, 6, 16 >>

(***************************************************************************)
(* Text: str.lower() and the substring test `needle in haystack`.          *)
(***************************************************************************)
UpperCase ==
    << "A", "B", "C", "D", "E", "F", "G", "H", "I", "J", "K", "L", "M",
       "N", "O", "P", "Q", "R", "S", "T", "U", "V", "W", "X", "Y", "Z" >>

LowerCase ==
    << "a", "b", "c", "d", "e", "f", "g", "h", "i", "j", "k", "l", "m",
       "n", "o", "p", "q", "r", "s", "t", "u", "v", "w", "x", "y", "z" >>

LowerChar(c) ==
    IF \E i \in 1..Len(UpperCase) : UpperCase[i] = c
    THEN LowerCase[CHOOSE i \in 1..Len(UpperCase) : UpperCase[i] = c]
    ELSE c

\* s.lower()
lower(s) == [i \in 1..Len(s) |-> LowerChar(s[i])]

\* needle in hay
Contains(needle, hay) ==
    \E i \in 1..(Len(hay) - Len(needle) + 1) :
        \A j \in 1..Len(needle) : hay[i + j - 1] = needle[j]

solar_system_keywords ==
    << <<"m", "e", "r", "c", "u", "r", "y">>,
       <<"v", "e", "n", "u", "s">>,
       <<"e", "a", "r", "t", "h">>,
       <<"m", "a", "r", "s">>,
       <<"j", "u", "p", "i", "t", "e", "r">>,
       <<"s", "a", "t", "u", "r", "n">>,
       <<"u", "r", "a", "n", "u", "s">>,
       <<"n", "e", "p", "t", "u", "n", "e">>,
       <<"m", "o", "o", "n">>,
       <<"s", "u", "n">>,
       <<"c", "o", "m", "e", "t">>,
       <<"a", "s", "t", "e", "r", "o", "i", "d">>,
       <<"a", "u", "r", "o", "r", "a">>,
       <<"a", "p", "o", "l", "l", "o">>,
       <<"i", "s", "s">>,
       <<"v", "i", "k", "i", "n", "g">>,
       <<"c", "u", "r", "i", "o", "s", "i", "t", "y">>,
       <<"c", "a", "s", "s", "i", "n", "i">>,
       <<"v", "o", "y", "a", "g", "e", "r">>,
       <<"j", "u", "n", "o">>,
       <<"o", "s", "i", "r", "i", "s">> >>

body_list ==
    << <<"M", "e", "r", "c", "u", "r", "y">>,
       <<"V", "e", "n", "u", "s">>,
       <<"M", "a", "r", "s">>,
       <<"J", "u", "p", "i", "t", "e", "r">>,
       <<"S", "a", "t", "u", "r", "n">>,
       <<"U", "r", "a", "n", "u", "s">>,
       <<"N", "e", "p", "t", "u", "n", "e">>,
       <<"E", "a", "r", "t", "h">>,
       <<"M", "o", "o", "n">> >>

SunName ==
    <<"S", "u", "n">>

UntitledApod ==
    <<"U", "n", "t", "i", "t", "l", "e", "d", " ", "A", "P", "O", "D">>

NoDescription ==
    <<"N", "o", " ", "d", "e", "t", "a", "i", "l", "e", "d", " ", "d", "e",
    "s", "c", "r", "i", "p", "t", "i", "o", "n", " ", "p", "r", "o", "v",
    "i", "d", "e", "d", " ", "f", "o", "r", " ", "t", "h", "i", "s", " ",
    "p", "i", "c", "t", "u", "r", "e", ".">>

\* "Saturn's Rings Appear to Disappear"
TitleSaturn ==
    <<"S", "a", "t", "u", "r", "n", "'", "s", " ", "R", "i", "n", "g", "s",
    " ", "A", "p", "p", "e", "a", "r", " ", "t", "o", " ", "D", "i", "s",
    "a", "p", "p", "e", "a", "r">>

\* "The Changing Ion Tail of Comet Pons-Brooks"
TitleComet ==
    <<"T", "h", "e", " ", "C", "h", "a", "n", "g", "i", "n", "g", " ", "I",
    "o", "n", " ", "T", "a", "i", "l", " ", "o", "f", " ", "C", "o", "m",
    "e", "t", " ", "P", "o", "n", "s", "-", "B", "r", "o", "o", "k", "s">>

\* "NGC 3717: A Nearly Sideways Spiral Galaxy"
TitleGalaxy ==
    <<"N", "G", "C", " ", "3", "7", "1", "7", ":", " ", "A", " ", "N", "e",
    "a", "r", "l", "y", " ", "S", "i", "d", "e", "w", "a", "y", "s", " ",
    "S", "p", "i", "r", "a", "l", " ", "G", "a", "l", "a", "x", "y">>

\* "Deimos Before Sunrise"
TitleDeimos ==
    <<"D", "e", "i", "m", "o", "s", " ", "B", "e", "f", "o", "r", "e", " ",
    "S", "u", "n", "r", "i", "s", "e">>

\* "Earth and the Moon"
TitleEarthMoon ==
    <<"E", "a", "r", "t", "h", " ", "a", "n", "d", " ", "t", "h", "e", " ",
    "M", "o", "o", "n">>

\* "MOON, MARS AND VENUS"
TitleUpper ==
    <<"M", "O", "O", "N", ",", " ", "M", "A", "R", "S", " ", "A", "N", "D",
    " ", "V", "E", "N", "U", "S">>

\* "A distant spiral galaxy."
ExplGalaxy ==
    <<"A", " ", "d", "i", "s", "t", "a", "n", "t", " ", "s", "p", "i", "r",
    "a", "l", " ", "g", "a", "l", "a", "x", "y", ".">>

\* "Mars rises near Jupiter."
ExplMars ==
    <<"M", "a", "r", "s", " ", "r", "i", "s", "e", "s", " ", "n", "e", "a",
    "r", " ", "J", "u", "p", "i", "t", "e", "r", ".">>

\* "Missing details."
ExplMissing ==
    <<"M", "i", "s", "s", "i", "n", "g", " ", "d", "e", "t", "a", "i", "l",
    "s", ".">>

\* "The tail keeps changing."
ExplTail ==
    <<"T", "h", "e", " ", "t", "a", "i", "l", " ", "k", "e", "e", "p", "s",
    " ", "c", "h", "a", "n", "g", "i", "n", "g", ".">>

(***************************************************************************)
(* The solar-system section of the page.                                   *)
(***************************************************************************)
\* any(keyword in title.lower() or keyword in explanation.lower() ...)
apod_is_solar(title, explanation) ==
    LET t == lower(title)
        e == lower(explanation)
    IN  \E i \in 1..Len(solar_system_keywords) :
            \/ Contains(solar_system_keywords[i], t)
            \/ Contains(solar_system_keywords[i], e)

\* Whether body number i of body_list occurs in the title or the explanation.
BodyOccurs(i, title, explanation) ==
    \/ Contains(lower(body_list[i]), lower(title))
    \/ Contains(lower(body_list[i]), lower(explanation))

\* MainBody with the loop's break left out: the last body that occurs wins.
MainBody_NoBreak(title, explanation) ==
    LET hits == { i \in 1..Len(body_list) : BodyOccurs(i, title, explanation) }
    IN  IF hits = {} THEN SunName
        ELSE body_list[CHOOSE i \in hits : \A j \in hits : i >= j]

\* The for loop with break: the first body of body_list that occurs, else 'Sun'.
MainBody(title, explanation) ==
    LET hits == { i \in 1..Len(body_list) : BodyOccurs(i, title, explanation) }
    IN  IF hits = {} THEN SunName
        ELSE body_list[CHOOSE i \in hits : \A j \in hits : i <= j]

\* ShowSolarSection without the test of the exclusion list.
ShowSolarSection_NoExclusion(is_solar, apod_date) == is_solar

\* if apod_is_solar and apod_date not in EXCLUDE_DATES
ShowSolarSection(is_solar, apod_date) ==
    is_solar /\ apod_date \notin EXCLUDE_DATES

\* The texts the model's API answers with, and the placeholders of the page.
ModelTitles ==
    { TitleSaturn, TitleComet, TitleGalaxy, TitleDeimos, TitleEarthMoon, TitleUpper,
      UntitledApod }

ModelExplanations == { ExplGalaxy, ExplMars, ExplMissing, ExplTail, NoDescription }

(***************************************************************************)
(* The date widgets and the date resolution.                               *)
(***************************************************************************)
\* st.sidebar.date_input(..., max_value=date.today(), min_value=date(1995, 6, 16)):
\* the widget only returns a date d with min_value <= d <= max_value.
date_input(d, min_value, max_value) == DateLeq(min_value, d) /\ DateLeq(d, max_value)

\* Resolve with the manual date taking precedence over the preset.
Resolve_ManualWins(manual_date_str, selected_event_date_str) ==
    IF Truthy(manual_date_str) THEN manual_date_str ELSE selected_event_date_str

\* "3. Determine the final date for fetching"
Resolve(manual_date_str, selected_event_date_str) ==
    IF Truthy(selected_event_date_str) THEN selected_event_date_str
    ELSE manual_date_str

\* "4. Trigger Logic": the session state after the button test.
TriggerLogic(ss, button, fds) ==
    IF button
    THEN DictSet(DictSet(ss, "fetch_trigger", fds), "fetch_by_button", TRUE)
    ELSE LET s1 == IF \/ "fetch_trigger" \notin DOMAIN ss
                      \/ DictGet(ss, "last_selected_date", None_) # fds
                   THEN DictSet(DictSet(ss, "fetch_trigger", fds),
                                "fetch_by_button", FALSE)
                   ELSE ss
         IN  DictSet(s1, "last_selected_date", fds)

\* FetchArg without the comparison with today's date.
FetchArg_AlwaysDate(fetch_date, today_str) == fetch_date

\* The argument of the fetch_apod call:
\* None if fetch_date == date.today().strftime("%Y-%m-%d") else fetch_date
FetchArg(fetch_date, today_str) ==
    IF fetch_date = today_str THEN None_ ELSE fetch_date

(***************************************************************************)
(* fetch_apod and its cache.                                               *)
(***************************************************************************)
\* params = {"api_key": API_KEY}; if date_str: params["date"] = date_str
Params(date_str) ==
    IF Truthy(date_str) THEN DictSet([api_key |-> API_KEY], "date", date_str)
    ELSE [api_key |-> API_KEY]

RateLimitMessage == "Rate limit exceeded. Please try again later."

\* fetch_apod without the branch for status 429.
fetch_apod_NoRateLimit(resp) ==
    IF resp.status_code = 200
    THEN [ok |-> TRUE, value |-> resp.json, error |-> ""]
    ELSE [ok |-> FALSE, value |-> EmptyDict,
          error |-> "API request failed with status code "
                    \o IntStr(resp.status_code) \o ". Response: " \o resp.text]

\* The body of fetch_apod after requests.get: the returned value or the
\* message of the raised Exception.
fetch_apod(resp) ==
    IF resp.status_code = 200
    THEN [ok |-> TRUE, value |-> resp.json, error |-> ""]
    ELSE IF resp.status_code = 429
    THEN [ok |-> FALSE, value |-> EmptyDict, error |-> RateLimitMessage]
    ELSE [ok |-> FALSE, value |-> EmptyDict,
          error |-> "API request failed with status code "
                    \o IntStr(resp.status_code) \o ". Response: " \o resp.text]

\* CacheFresh without expiry.
CacheFresh_NeverExpires(entry, t) == TRUE

\* @st.cache_data(ttl=3600): a stored entry is served while its age is below
\* the ttl.
CacheFresh(entry, t) == t - entry.created < TTL

CacheHit(store, arg, t) == arg \in DOMAIN store /\ CacheFresh(store[arg], t)

\* How the cached call is served: from the store, or by running fetch_apod
\* with no entry or with an expired one.
Served(store, arg, t) ==
    IF CacheHit(store, arg, t) THEN "hit"
    ELSE IF arg \in DOMAIN store THEN "expired" ELSE "miss"

\* The store after a call that ran fetch_apod: a returned value is stored
\* under the argument, a raised exception stores nothing.
CacheStore(store, arg, result, t) ==
    IF result.ok THEN DictSet(store, arg, [value |-> result.value, created |-> t])
    ELSE store

(***************************************************************************)
(* The remote API: what requests.get(API_URL, params) can answer.          *)
(***************************************************************************)
NoResponse == [status_code |-> 0, json |-> EmptyDict, text |-> ""]

\* The date the server answers for: the date parameter, or the current day.
ServedDate(params, today_str) == DictGet(params, "date", today_str)

\* The non-200 answers of the model.
ErrorResponses ==
    { [status_code |-> 429, json |-> EmptyDict, text |-> "OVER_RATE_LIMIT"],
      [status_code |-> 500, json |-> EmptyDict, text |-> "Internal Server Error"],
      [status_code |-> 500, json |-> EmptyDict, text |-> "Bad Gateway"],
      [status_code |-> 404, json |-> EmptyDict, text |-> "Internal Server Error"],
      [status_code |-> 400, json |-> EmptyDict, text |-> "Date must be between Jun 16, 1995 and today."] }

ImageUrl(d) == "https://apod.nasa.gov/apod/image/" \o d \o ".jpg"

\* The archive's picture of a day.
ArchiveTitle(d) ==
    CASE d = "2025-05-24" -> TitleDeimos
      [] d = "2024-04-08" -> TitleComet
      [] d = "1998-04-01" -> TitleSaturn
      [] OTHER -> TitleGalaxy

ArchiveExplanation(d) ==
    CASE d = "2025-05-24" -> ExplMars
      [] d = "2024-04-08" -> ExplTail
      [] OTHER -> ExplGalaxy

ArchiveEntry(d) ==
    [title |-> ArchiveTitle(d), date |-> d, explanation |-> ArchiveExplanation(d),
     url |-> ImageUrl(d), hdurl |-> ImageUrl(d \o "_hd"), media_type |-> "image"]

\* The dates that occur in the model, to read a "YYYY-MM-DD" string back.
KnownDates ==
    { << 1995, 6, 15 >>, MinDate, << 1998, 4, 1 >>, << 2005, 7, 4 >>,
      << 2024, 4, 8 >>, << 2025, 4, 29 >>, StartDay, NextDay(StartDay),
      NextDay(NextDay(StartDay)) }

ParseDate(s) == CHOOSE d \in KnownDates : strftime(d) = s

\* The API has a picture for every day from 1995-06-16 to the current day.
InArchive(d, today_str) ==
    /\ DateLeq(MinDate, ParseDate(d))
    /\ DateLeq(ParseDate(d), ParseDate(today_str))

OutOfRangeResponse ==
    CHOOSE r \in ErrorResponses : r.status_code = 400

\* What the API can answer in a session: the archive's picture of the served
\* date (status 400 for a date it has no picture of) or a rate-limit answer.
ArchiveResponses(params, today_str) ==
    { IF InArchive(ServedDate(params, today_str), today_str)
      THEN [status_code |-> 200,
            json |-> ArchiveEntry(ServedDate(params, today_str)), text |-> ""]
      ELSE OutOfRangeResponse }
    \cup { r \in ErrorResponses :
              r.text = "OVER_RATE_LIMIT" }

\* The fields the page reads with a placeholder or None as default.
RequiredFields == { "title", "date", "explanation", "url" }

\* dict restricted to some of its keys: a JSON body with fields left out.
Restrict(d, keys) == [k \in keys \cap DOMAIN d |-> d[k]]

\* The sets of required fields a 200 body of the model has: all of them, all
\* but one, or none.
KeptFields ==
    { RequiredFields, {} } \cup { RequiredFields \ { f } : f \in RequiredFields }

\* A 200 body for the served date with the given texts and media type.
Body(d, t, e, m) ==
    [title |-> t, date |-> d, explanation |-> e, url |-> ImageUrl(d),
     hdurl |-> ImageUrl(d \o "_hd"), media_type |-> m]

\* The pairs of title and explanation of the 200 bodies of the model.
ModelTexts ==
    { << TitleSaturn, ExplGalaxy >>, << TitleSaturn, ExplMars >>,
      << TitleComet, ExplTail >>, << TitleDeimos, ExplMars >>,
      << TitleEarthMoon, ExplGalaxy >>, << TitleUpper, ExplGalaxy >>,
      << TitleGalaxy, ExplGalaxy >>, << TitleGalaxy, ExplMars >>,
      << TitleGalaxy, ExplMissing >> }

\* Any 200 body for the served date: an image with a pair of texts of the
\* model and all fields, one pair of texts as an image with required fields
\* left out, or as a video.
AnyBodies(d) ==
    { Body(d, x[1], x[2], "image") : x \in ModelTexts }
    \cup
    { Restrict(Body(d, TitleSaturn, ExplMars, "image"),
               { "hdurl", "media_type" } \cup keep) : keep \in KeptFields }
    \cup
    { Body(d, TitleSaturn, ExplMars, "video") }

\* What the API can answer at all: any 200 body for a date it has a picture
\* of, or any of the non-200 answers.
AnyResponses(params, today_str) ==
    IF InArchive(ServedDate(params, today_str), today_str)
    THEN { [status_code |-> 200, json |-> b, text |-> ""] :
             b \in AnyBodies(ServedDate(params, today_str)) }
         \cup ErrorResponses
    ELSE ErrorResponses

(***************************************************************************)
(* The page.                                                               *)
(***************************************************************************)
NothingShown ==
    [kind |-> "none", title |-> <<>>, apod_date |-> None_, explanation |-> <<>>,
     img_url |-> None_, hd_url |-> None_, media |-> None_, balloons |-> FALSE,
     solar_section |-> FALSE, main_body |-> <<>>, error |-> ""]

\* media_type = data.get("media_type", "image") and the three branches on it;
\* an image that cannot be downloaded or opened is reported with st.error.
MediaPanel(media_type, img_ok) ==
    IF media_type = "video" THEN "video"
    ELSE IF media_type = "image"
    THEN (IF img_ok THEN "image" ELSE "image_error")
    ELSE "unsupported"

\* apod_is_solar and MainBody of every pair of texts of the model, evaluated once.
SolarTable ==
    { << t, e, apod_is_solar(t, e), MainBody(t, e) >> :
        t \in ModelTitles, e \in ModelExplanations }

\* The two results for a title and an explanation, read from SolarTable.
SolarRow(title, explanation) ==
    IF \E r \in SolarTable : r[1] = title /\ r[2] = explanation
    THEN CHOOSE r \in SolarTable : r[1] = title /\ r[2] = explanation
    ELSE << title, explanation, apod_is_solar(title, explanation),
            MainBody(title, explanation) >>

\* st.header and st.caption: the first elements shown for a fetched data dict.
ShowHeader(apod, balloons) ==
    [NothingShown EXCEPT !.kind = "header",
                         !.title = DictGet(apod, "title", UntitledApod),
                         !.apod_date = DictGet(apod, "date", "Unknown Date"),
                         !.balloons = balloons]

\* The complete page shown for a fetched data dict.
ShowEntry(apod, balloons, img_ok) ==
    LET title       == DictGet(apod, "title", UntitledApod)
        apod_date   == DictGet(apod, "date", "Unknown Date")
        explanation == DictGet(apod, "explanation", NoDescription)
        row         == SolarRow(title, explanation)
        solar       == ShowSolarSection(row[3], apod_date)
    IN  [kind |-> "entry", title |-> title, apod_date |-> apod_date,
         explanation |-> explanation,
         img_url |-> DictGet(apod, "url", None_),
         hd_url |-> DictGet(apod, "hdurl", None_),
         media |-> MediaPanel(DictGet(apod, "media_type", "image"), img_ok),
         balloons |-> balloons,
         solar_section |-> solar,
         main_body |-> IF solar THEN row[4] ELSE <<>>,
         error |-> ""]

\* except Exception as e: st.error(...)
ShowError(e) ==
    [NothingShown EXCEPT !.kind = "error",
                         !.error = "An error occurred while fetching the APOD: " \o e]

(***************************************************************************)
(* One run of the script, in the steps between which the clock advances,   *)
(* the shared store changes or the run is stopped.  pc is the place of the *)
(* running script: "idle" when no run is under way.                        *)
(***************************************************************************)
\* Lines 110-157: the sidebar widgets, the date resolution and the trigger
\* logic.  The elements of the previous run are replaced.
Begin(manual, key, button) ==
    LET fds == Resolve(strftime(manual), SOLAR_APOD_DATES[key])
        ss1 == TriggerLogic(session_state, button, fds)
    IN  /\ pc = "idle"
        /\ date_input(manual, MinDate, Today(now))
        /\ manual_date' = manual
        /\ event_selection_key' = key
        /\ clicked' = button
        /\ fetch_date_str' = fds
        /\ session_state' = ss1
        /\ pc' = IF Truthy(DictGet(ss1, "fetch_trigger", None_))
                 THEN "triggered" ELSE "idle"
        /\ run_today' = Today(now)
        /\ lookup' = [arg |-> None_, served |-> "none"]
        /\ api_calls' = <<>>
        /\ response' = NoResponse
        /\ data' = EmptyDict
        /\ raised' = ""
        /\ outcome' = NothingShown
        /\ UNCHANGED << now, cache >>
        /\ UNCHANGED << other, refetched >>

\* Lines 161-167: the call of the cached fetch_apod.  A stored, fresh entry
\* is returned at once; otherwise fetch_apod runs and requests.get is sent.
Lookup ==
    LET fetch_date == session_state["fetch_trigger"]
        arg        == FetchArg(fetch_date, strftime(Today(now)))
        served     == Served(cache, arg, now)
    IN  /\ pc = "triggered"
        /\ run_today' = Today(now)
        /\ lookup' = [arg |-> arg, served |-> served]
        /\ IF served = "hit"
           THEN /\ data' = cache[arg].value
                /\ api_calls' = <<>>
                /\ pc' = "fetched"
           ELSE /\ data' = EmptyDict
                /\ api_calls' = << Params(arg) >>
                /\ pc' = "waiting"
        /\ UNCHANGED << now, session_state, cache, manual_date, event_selection_key,
                        clicked, fetch_date_str, response, raised, outcome >>
        /\ refetched' = IF arg \in DOMAIN cache /\ now - cache[arg].created > TTL
                       THEN refetched \cup { arg } ELSE refetched
        /\ UNCHANGED other

\* Lines 58-65: requests.get returns; fetch_apod returns the JSON body, which
\* the cache stores, or raises.
Receive(resp) ==
    LET result == fetch_apod(resp)
    IN  /\ pc = "waiting"
        /\ response' = resp
        /\ cache' = CacheStore(cache, lookup.arg, result, now)
        /\ data' = result.value
        /\ raised' = result.error
        /\ pc' = IF result.ok THEN "fetched" ELSE "failed"
        /\ UNCHANGED << now, session_state, manual_date, event_selection_key, clicked,
                        fetch_date_str, run_today, lookup, api_calls, outcome >>
        /\ UNCHANGED << other, refetched >>

\* Lines 277-279: the exception of fetch_apod is shown.
ShowFailure ==
    /\ pc = "failed"
    /\ outcome' = ShowError(raised)
    /\ pc' = "idle"
    /\ UNCHANGED << now, session_state, cache, manual_date, event_selection_key,
                    clicked, fetch_date_str, run_today, lookup, api_calls, response,
                    data, raised >>
    /\ UNCHANGED << other, refetched >>

\* Lines 175-177: balloons for a fetch by the button, and the flag reset.
Celebrate ==
    LET by_button == DictGet(session_state, "fetch_by_button", FALSE)
    IN  /\ pc = "fetched"
        /\ session_state' = IF by_button
                            THEN DictSet(session_state, "fetch_by_button", FALSE)
                            ELSE session_state
        /\ outcome' = [outcome EXCEPT !.balloons = by_button]
        /\ pc' = "showing"
        /\ UNCHANGED << now, cache, manual_date, event_selection_key, clicked,
                        fetch_date_str, run_today, lookup, api_calls, response,
                        data, raised >>
        /\ UNCHANGED << other, refetched >>

\* Lines 181-197: header and caption; for an image the download is sent.
Header ==
    /\ pc = "showing"
    /\ outcome' = ShowHeader(data, outcome.balloons)
    /\ pc' = "media"
    /\ UNCHANGED << now, session_state, cache, manual_date, event_selection_key,
                    clicked, fetch_date_str, run_today, lookup, api_calls, response,
                    data, raised >>
    /\ UNCHANGED << other, refetched >>

\* Lines 198-275: the media panel (the image download succeeded or not), the
\* explanation and the solar-system section.
Finish(img_ok) ==
    /\ pc = "media"
    /\ outcome' = ShowEntry(data, outcome.balloons, img_ok)
    /\ pc' = "idle"
    /\ UNCHANGED << now, session_state, cache, manual_date, event_selection_key,
                    clicked, fetch_date_str, run_today, lookup, api_calls, response,
                    data, raised >>
    /\ UNCHANGED << other, refetched >>

\* The script runner stops the running script at an st.* call when the user
\* interacts again: at st.title after the trigger logic, at st.balloons or
\* st.header after the fetch, at st.image after the download, at st.error.
\* It does not stop it inside requests.get: after the answer of the API the
\* store is written before the next st.* call.
Stop ==
    /\ pc \in { "triggered", "fetched", "showing", "media", "failed" }
    /\ pc' = "idle"
    /\ UNCHANGED << now, session_state, cache, manual_date, event_selection_key,
                    clicked, fetch_date_str, run_today, lookup, api_calls, response,
                    data, raised, outcome >>
    /\ UNCHANGED << other, refetched >>

\* Time passes, between two runs or during one.
Tick ==
    /\ now < LastNow
    /\ now' = now + TickSeconds(now)
    /\ UNCHANGED << pc, session_state, cache, manual_date, event_selection_key,
                    clicked, fetch_date_str, run_today, lookup, api_calls, response,
                    data, raised, outcome >>
    /\ UNCHANGED << other, refetched >>

\* The dates and presets the user picks from in the model.
ManualCandidates == { << 1995, 6, 15 >>, StartDay, NextDay(StartDay) }

PresetChoices ==
    { Placeholder, "Deimos Before Sunrise (2025-05-24)" }

\* A user interaction starts a run of the script.  The widget events that
\* arrive while the script waits or before it reaches the widgets are
\* delivered to one run, so a run may see the date, the preset and the
\* button changed together.
UserRerun ==
    \E manual \in ManualCandidates, key \in PresetChoices, button \in BOOLEAN :
        Begin(manual, key, button)

\* The API answers the request of the running script.
ArchiveAnswer ==
    /\ pc = "waiting"
    /\ \E resp \in ArchiveResponses(Params(lookup.arg), strftime(Today(now))) :
           Receive(resp)

\* The image download ends.
ImageAnswer == \E img_ok \in BOOLEAN : Finish(img_ok)

\* The store of st.cache_data is shared by the sessions of the server.
\* Another session runs the script with its own widget values and reaches the
\* fetch_apod call (line 167): with no fresh entry under its argument it
\* sends requests.get (line 58) and waits.
OtherLookup(fds) ==
    LET arg == FetchArg(fds, strftime(Today(now)))
    IN  /\ other.pc = "idle"
        /\ Served(cache, arg, now) # "hit"
        /\ other' = [pc |-> "waiting", arg |-> arg]
        /\ UNCHANGED << now, pc, session_state, cache, manual_date,
                        event_selection_key, clicked, fetch_date_str, run_today,
                        lookup, api_calls, response, data, raised, outcome,
                        refetched >>

\* The request of the other session returns (lines 58-65): the JSON body of a
\* 200 answer is stored under its argument, created at the arrival; an
\* exception is not stored.
OtherReceive(resp) ==
    /\ other.pc = "waiting"
    /\ cache' = CacheStore(cache, other.arg, fetch_apod(resp), now)
    /\ other' = [pc |-> "idle", arg |-> None_]
    /\ UNCHANGED << now, pc, session_state, manual_date, event_selection_key,
                    clicked, fetch_date_str, run_today, lookup, api_calls, response,
                    data, raised, outcome, refetched >>

\* The user of the other session picks from the same dates and presets.
OtherSessionLookup ==
    \E manual \in ManualCandidates, key \in PresetChoices :
        /\ date_input(manual, MinDate, Today(now))
        /\ OtherLookup(Resolve(strftime(manual), SOLAR_APOD_DATES[key]))

\* The API answers the request of the other session.
OtherSessionAnswer ==
    /\ other.pc = "waiting"
    /\ \E resp \in ArchiveResponses(Params(other.arg), strftime(Today(now))) :
           OtherReceive(resp)

Init ==
    /\ now = StartNow
    /\ pc = "idle"
    /\ session_state = EmptyDict
    /\ cache = EmptyDict
    /\ manual_date = Today(StartNow)
    /\ event_selection_key = Placeholder
    /\ clicked = FALSE
    /\ fetch_date_str = None_
    /\ run_today = Today(StartNow)
    /\ lookup = [arg |-> None_, served |-> "none"]
    /\ api_calls = <<>>
    /\ response = NoResponse
    /\ data = EmptyDict
    /\ raised = ""
    /\ outcome = NothingShown
    /\ other = [pc |-> "idle", arg |-> None_]
    /\ refetched = {}

Next ==
    \/ UserRerun
    \/ Lookup
    \/ ArchiveAnswer
    \/ ShowFailure
    \/ Celebrate
    \/ Header
    \/ ImageAnswer
    \/ Stop
    \/ Tick
    \/ OtherSessionLookup
    \/ OtherSessionAnswer

Spec == Init /\ [][Next]_vars

(***************************************************************************)
(* The first run of the script on any answer of the API, with the clock    *)
(* and the other session: the widgets, the fetch and the page as functions *)
(* of their inputs.                                                        *)
(***************************************************************************)
\* The dates of the date picker in the first run: the day before min_value
\* (refused by the widget), min_value, the two excluded dates, and the current
\* day before and after midnight (value="today", the widget left untouched).
FirstRunManualCandidates ==
    { << 1995, 6, 15 >>, MinDate, << 1998, 4, 1 >>, << 2005, 7, 4 >>, StartDay,
      NextDay(StartDay) }

FirstRunPresetChoices ==
    { Placeholder,
      "Saturn's Rings Appear to Disappear (2025-04-29)",
      "The Changing Ion Tail of Comet Pons-Brooks (2024-04-08)",
      "Deimos Before Sunrise (2025-05-24)" }

FirstRun ==
    /\ fetch_date_str = None_
    /\ \E manual \in FirstRunManualCandidates, key \in FirstRunPresetChoices,
          button \in BOOLEAN :
           Begin(manual, key, button)

\* The API answers the request of the first run with any of its answers.
AnyAnswer ==
    /\ pc = "waiting"
    /\ \E resp \in AnyResponses(Params(lookup.arg), strftime(Today(now))) :
           Receive(resp)

\* Time passes before, during or after the first run.
FirstRunTick ==
    /\ now < After(StartNow, MaxFirstRunTicks)
    /\ Tick

NextFirstRun ==
    \/ FirstRun
    \/ Lookup
    \/ AnyAnswer
    \/ ShowFailure
    \/ Celebrate
    \/ Header
    \/ ImageAnswer
    \/ Stop
    \/ FirstRunTick
    \/ OtherSessionLookup
    \/ OtherSessionAnswer

SpecFirstRun == Init /\ [][NextFirstRun]_vars

(***************************************************************************)
(* Properties.                                                             *)
(***************************************************************************)
\* The current run has resolved its date (lines 117-157 have run).
Resolved == fetch_date_str # None_

\* The current run has reached the fetch_apod call.
Fetched == lookup.served # "none"

\* fetch_date of the current run: st.session_state.get('fetch_trigger').
FetchDate == session_state["fetch_trigger"]

\* C1: a fetch_apod lookup of this session whose stored entry is younger than
\* the TTL makes no API call, returns the stored value and leaves the store
\* alone; a lookup whose stored entry is older than the TTL, or that finds no
\* entry, calls the API once, and its successful answer is stored, created at
\* its arrival, in place of the old entry.  No step, of this session or of
\* another, removes an entry younger than the TTL or makes it older, so the
\* entry a lookup stored is still served less than a TTL after that lookup:
\* the two lookups call the API once.
C1_CacheTtl ==
    [][ /\ (pc = "triggered" /\ pc' \in { "fetched", "waiting" }) =>
               LET k == lookup'.arg
               IN  /\ (k \in DOMAIN cache /\ now - cache[k].created < TTL) =>
                          /\ api_calls' = <<>>
                          /\ pc' = "fetched"
                          /\ data' = cache[k].value
                          /\ cache' = cache
                   /\ (k \notin DOMAIN cache \/ now - cache[k].created > TTL) =>
                          /\ Len(api_calls') = 1
                          /\ pc' = "waiting"
        /\ (pc = "waiting" /\ pc' = "fetched") =>
               /\ Len(api_calls) = 1
               /\ lookup.arg \in DOMAIN cache'
               /\ cache'[lookup.arg] = [value |-> response'.json, created |-> now]
               /\ data' = response'.json
        /\ \A k \in DOMAIN cache :
               (now - cache[k].created < TTL) =>
                   /\ k \in DOMAIN cache'
                   /\ cache'[k].created >= cache[k].created
      ]_vars

\* C1 witness: this session has looked up the key None and a date key when
\* their entries were older than the TTL, and the answer to the call of the
\* last such lookup has just replaced the old entry.
C1_Witness ==
    /\ None_ \in refetched
    /\ \E k \in refetched : k # None_
    /\ lookup.served = "expired"
    /\ lookup.arg \in refetched
    /\ pc = "fetched"
    /\ Len(api_calls) = 1
    /\ response.status_code = 200
    /\ cache[lookup.arg] = [value |-> response.json, created |-> now]

\* C2: in a run, fetch_date_str is the preset's date when the selected preset
\* has one, whatever the manual date, and the manual date otherwise.
C2_PresetWins ==
    Resolved =>
        IF SOLAR_APOD_DATES[event_selection_key] # None_
        THEN fetch_date_str = SOLAR_APOD_DATES[event_selection_key]
        ELSE fetch_date_str = strftime(manual_date)

\* C2 witness: a preset was selected together with a different manual date.
C2_Witness ==
    /\ Resolved
    /\ event_selection_key = "The Changing Ion Tail of Comet Pons-Brooks (2024-04-08)"
    /\ manual_date = << 1998, 4, 1 >>
    /\ fetch_date_str = "2024-04-08"

\* C3 (as claimed): when the date resolved in a run equals the date.today()
\* read at its fetch, fetch_apod is called with None and a request carries no
\* date parameter; when it differs, fetch_apod is called with the resolved
\* date and a request carries exactly that date.
C3_LatestWhenToday ==
    Fetched =>
        /\ (fetch_date_str = strftime(run_today)) =>
               /\ lookup.arg = None_
               /\ \A i \in 1..Len(api_calls) : "date" \notin DOMAIN api_calls[i]
        /\ (fetch_date_str # strftime(run_today)) =>
               /\ lookup.arg = fetch_date_str
               /\ \A i \in 1..Len(api_calls) :
                      /\ "date" \in DOMAIN api_calls[i]
                      /\ api_calls[i]["date"] = fetch_date_str

\* C4 (as claimed): no date before 1995-06-16 or after the current date of the
\* fetch is handed to the fetch, whether it came from the date input or from a
\* preset.
C4_FetchDateInRange ==
    Fetched =>
        /\ DateLeq(MinDate, ParseDate(FetchDate))
        /\ DateLeq(ParseDate(FetchDate), run_today)

\* C5: on a 429 answer fetch_apod raises the rate-limit failure, on any other
\* non-200 answer another failure whose message is made of that answer's
\* status code and body and differs for every other non-200 answer; neither
\* returns or shows an entry, what is shown is that failure, and the step
\* that receives the answer stores nothing.
C5_ErrorKinds ==
    /\ [] ( (response.status_code \notin { 0, 200 }) =>
               /\ raised # ""
               /\ data = EmptyDict
               /\ pc \in { "failed", "idle" }
               /\ outcome \in { NothingShown, ShowError(raised) }
               /\ (response.status_code = 429) => raised = RateLimitMessage
               /\ (response.status_code # 429) =>
                      /\ raised # RateLimitMessage
                      /\ raised = "API request failed with status code "
                                      \o IntStr(response.status_code)
                                      \o ". Response: " \o response.text
                      /\ \A r \in ErrorResponses :
                             r # response => fetch_apod(r).error # raised )
    /\ [][ (pc = "waiting" /\ response'.status_code \notin { 0, 200 }) =>
               /\ cache' = cache
               /\ pc' = "failed"
          ]_vars

\* C5 witness: the API answered 429 and the page shows the rate-limit failure.
C5_Witness ==
    /\ response.status_code = 429
    /\ raised = RateLimitMessage
    /\ outcome.kind = "error"

\* C6 (as claimed): a 200 answer whose body lacks title, date, explanation or
\* url makes the fetch fail, so that no entry with a required field absent is
\* returned.
C6_MissingFieldFails ==
    (response.status_code = 200 /\ RequiredFields \ DOMAIN response.json # {}) =>
        raised # ""

\* C7: an entry whose date is in EXCLUDE_DATES never gets the solar-system
\* section, whatever its title and explanation.
C7_ExcludedNeverSolar ==
    (outcome.kind = "entry" /\ outcome.apod_date \in EXCLUDE_DATES) =>
        /\ ~outcome.solar_section
        /\ outcome.main_body = <<>>

\* C7 witness: an entry of an excluded date whose title matches a keyword.
C7_Witness ==
    /\ outcome.kind = "entry"
    /\ outcome.apod_date = "1998-04-01"
    /\ outcome.title = TitleSaturn
    /\ apod_is_solar(outcome.title, outcome.explanation)
    /\ ~outcome.solar_section

\* The bodies of body_list occurring in each pair of texts of the model,
\* evaluated once.
BodyOccursTable ==
    { << t, e, i, BodyOccurs(i, t, e) >> :
        t \in ModelTitles, e \in ModelExplanations, i \in 1..Len(body_list) }

\* body_list[i] occurs in the title or the explanation, read from
\* BodyOccursTable for the texts of the model.
Occurs(i, title, explanation) ==
    IF title \in ModelTitles /\ explanation \in ModelExplanations
    THEN << title, explanation, i, TRUE >> \in BodyOccursTable
    ELSE BodyOccurs(i, title, explanation)

\* C8: when the solar-system section is shown, main_body is the first name of
\* Mercury, Venus, Mars, Jupiter, Saturn, Uranus, Neptune, Earth, Moon that
\* occurs case-insensitively in the title or the explanation, and Sun when
\* none of them occurs.
C8_FirstBodyInOrder ==
    (outcome.kind = "entry" /\ outcome.solar_section) =>
        LET occurs(i) == Occurs(i, outcome.title, outcome.explanation)
        IN  /\ \/ outcome.main_body = SunName
               \/ \E i \in 1..Len(body_list) : outcome.main_body = body_list[i]
            /\ (outcome.main_body = SunName) =>
                   \A i \in 1..Len(body_list) : ~occurs(i)
            /\ \A i \in 1..Len(body_list) :
                   (outcome.main_body = body_list[i]) =>
                       /\ occurs(i)
                       /\ \A j \in 1..(i - 1) : ~occurs(j)

\* C8 witness: a title naming Saturn, with no earlier body, gives Saturn.
C8_Witness ==
    /\ outcome.kind = "entry"
    /\ outcome.solar_section
    /\ outcome.title = TitleSaturn
    /\ outcome.explanation = ExplGalaxy
    /\ outcome.main_body = body_list[5]

\* C9 (as claimed): the date fetched in a run is the date resolved from that
\* run's own widget values.
C9_FetchesResolvedDate == Fetched => FetchDate = fetch_date_str

\* C10 (as claimed, for an entry served from the cache): the entry shown for
\* a request made for date d is the entry of date d, also when the day has
\* rolled over since the entry was stored.
C10_EntryOfRequestedDate ==
    (lookup.served = "hit" /\ outcome.kind = "entry") =>
        outcome.apod_date = FetchDate

====
